---- MODULE Spec2Model ----
(***************************************************************************)
(* pysent (src/main.py): a slide deck is parsed from a text file, then     *)
(* shown one slide at a time in a pygame window; the arrow keys move the   *)
(* cursor, q or closing the window quits.                                  *)
(*                                                                         *)
(* Characters are modelled as one-element strings, a str as a sequence of  *)
(* characters, a list as a sequence, indices of Python lists as 0-based    *)
(* numbers (the TLA+ sequence is read at index + 1).                       *)
(*                                                                         *)
(* Lengths on the screen are floats in the source (screen * 0.1).  They    *)
(* are kept here as integers in tenths of a unit (names ending in 10), and *)
(* the places where IEEE-754 double rounding changes a result of the       *)
(* source's expressions are listed in the Float... tables below.           *)
(***************************************************************************)
EXTENDS Integers, Sequences, FiniteSets

VARIABLES text, paragraphs, idx, pres, pc, exc, screen, running, event, drawn

vars == <<text, paragraphs, idx, pres, pc, exc, screen, running, event, drawn>>

-----------------------------------------------------------------------------
(* Bounds of the model *)

MaxLen == 4
MaxScreen == 16
MaxImage == 6
MaxLines == 2
MaxLineLen == 3
MaxCalls == 4

(* Program constants *)

LineSpacing == 10
PaddingTenths == 1
InitialFontSize == 1

-----------------------------------------------------------------------------
(* Characters and strings *)

NL == "LF"
AT == "@"
HASH == "#"
BACKSLASH == "BSL"
SPACE == " "
LETTER == "a"

Alphabet == {NL, AT, HASH, BACKSLASH, SPACE, LETTER}
Whitespace == {NL, SPACE}

Strings(n) == UNION {[1..k -> Alphabet] : k \in 0..n}

Min(a, b) == IF a <= b THEN a ELSE b
Max(a, b) == IF a >= b THEN a ELSE b

(* str.startswith(prefix) *)
StartsWith(s, p) == Len(s) >= Len(p) /\ SubSeq(s, 1, Len(p)) = p

(* str.removeprefix(prefix): removes one occurrence, at the start *)
RemovePrefix(s, p) ==
    IF StartsWith(s, p) THEN SubSeq(s, Len(p) + 1, Len(s)) ELSE s

(* str.find(sep, from): the least position >= from where sep occurs, 0 if none *)
Find(s, sep, from) ==
    LET hits == {j \in from..(Len(s) - Len(sep) + 1) : SubSeq(s, j, j + Len(sep) - 1) = sep}
    IN IF hits = {} THEN 0 ELSE CHOOSE j \in hits : \A k \in hits : j <= k

(* str.split(sep), sep non-empty: the pieces between the occurrences of sep,
   found left to right without overlap; always at least one piece *)
(* a split that drops empty pieces, as str.split() without a separator does *)
RECURSIVE SplitSkippingEmpty(_, _)
SplitSkippingEmpty(s, sep) ==
    LET j == Find(s, sep, 1)
    IN IF j = 0 THEN (IF s = <<>> THEN <<>> ELSE <<s>>)
       ELSE (IF j = 1 THEN <<>> ELSE <<SubSeq(s, 1, j - 1)>>)
            \o SplitSkippingEmpty(SubSeq(s, j + Len(sep), Len(s)), sep)

RECURSIVE SplitOn(_, _)
SplitOn(s, sep) ==
    LET j == Find(s, sep, 1)
    IN IF j = 0 THEN <<s>>
       ELSE <<SubSeq(s, 1, j - 1)>> \o SplitOn(SubSeq(s, j + Len(sep), Len(s)), sep)

(* str.split() without arguments: the maximal runs of non-whitespace *)
RECURSIVE SkipWhitespace(_)
SkipWhitespace(s) ==
    IF s # <<>> /\ Head(s) \in Whitespace THEN SkipWhitespace(Tail(s)) ELSE s

RECURSIVE TakeToken(_)
TakeToken(s) ==
    IF s = <<>> \/ Head(s) \in Whitespace THEN <<>>
    ELSE <<Head(s)>> \o TakeToken(Tail(s))

RECURSIVE SplitWhitespace(_)
SplitWhitespace(s) ==
    LET t == SkipWhitespace(s)
    IN IF t = <<>> THEN <<>>
       ELSE LET tok == TakeToken(t)
            IN <<tok>> \o SplitWhitespace(SubSeq(t, Len(tok) + 1, Len(t)))

-----------------------------------------------------------------------------
(* class Slide *)

None == [path |-> <<>>, size |-> <<0, 0>>]

(* A pygame.Surface decoded from the file at path *)
Surface(path, w, h) == [path |-> path, size |-> <<w, h>>]

Slide == [lines |-> <<>>, image |-> None]

set_image(slide, surface) == [slide EXCEPT !.image = surface]

set_lines(slide, lines) == [slide EXCEPT !.lines = lines]

get_content(slide) ==
    IF slide.image # None
    THEN [kind |-> "Surface", image |-> slide.image, lines |-> <<>>]
    ELSE [kind |-> "list", image |-> None, lines |-> slide.lines]

(* class Presentation *)

Presentation == [slides |-> <<>>, current_slide |-> 0]

add_slide(p, slide) == [p EXCEPT !.slides = Append(p.slides, slide)]

get_current_slide(p) == p.slides[p.current_slide + 1]

(* next without the clamp at the last slide *)
next_unclamped(p) == [p EXCEPT !.current_slide = p.current_slide + 1]

(* next wrapping around to the first slide *)
next_wrapping(p) ==
    [p EXCEPT !.current_slide = (p.current_slide + 1) % Len(p.slides)]

next(p) ==
    [p EXCEPT !.current_slide = Min(p.current_slide + 1, Len(p.slides) - 1)]

(* prev that also drops the first slide *)
prev_dropping(p) ==
    [slides |-> IF p.slides = <<>> THEN <<>> ELSE Tail(p.slides),
     current_slide |-> Max(p.current_slide - 1, 0)]

prev(p) == [p EXCEPT !.current_slide = Max(p.current_slide - 1, 0)]

-----------------------------------------------------------------------------
(* parse: the body of the loop over the paragraphs.  load is what
   pygame.image.load returns for the image file: the size of the decoded
   surface, or LoadFails when the library raises pygame.error. *)

LoadFails == <<0, 0>>

NotComment(line) == ~StartsWith(line, <<HASH>>)

StripEscape(line) == RemovePrefix(line, <<BACKSLASH>>)

(* list(map(lambda line: line.removeprefix("\\"), lines)) *)
RECURSIVE StripEscapes(_)
StripEscapes(lines) ==
    IF lines = <<>> THEN <<>>
    ELSE <<StripEscape(Head(lines))>> \o StripEscapes(Tail(lines))

(* the text branch without the comment filter *)
TextLinesKeepingComments(par) == StripEscapes(SplitOn(par, <<NL>>))

TextLines(par) ==
    StripEscapes(SelectSeq(SplitOn(par, <<NL>>), NotComment))

ParseParagraph(par, load) ==
    IF StartsWith(par, <<AT>>)
    THEN LET tokens == SplitWhitespace(RemovePrefix(par, <<AT>>))
         IN IF tokens = <<>>
            THEN [exc |-> "IndexError", slide |-> Slide]
            ELSE IF load = LoadFails
            THEN [exc |-> "pygame.error", slide |-> Slide]
            ELSE [exc |-> "none",
                  slide |-> set_image(Slide, Surface(tokens[1], load[1], load[2]))]
    ELSE [exc |-> "none", slide |-> set_lines(Slide, TextLines(par))]

(* parse when every image loads with the given size: the loop run to its end *)
RECURSIVE ParseFrom(_, _, _)
ParseFrom(pars, p, load) ==
    IF pars = <<>> THEN p
    ELSE ParseFrom(Tail(pars), add_slide(p, ParseParagraph(Head(pars), load).slide), load)

-----------------------------------------------------------------------------
(* Layout.  available = screen - 2 * (screen * padding), in tenths. *)

Available10(screen_dim, padding_tenths) ==
    10 * screen_dim - 2 * (screen_dim * padding_tenths)

(* pygame.font.Font(name, size).size(string): the metrics of the default font,
   taken as non-decreasing in the size; pygame opens a size below 1 as size 1 *)
PointSize(f) == IF f <= 1 THEN 1 ELSE f

CharWidth(f) == (PointSize(f) + 1) \div 2

LineHeight(f) == PointSize(f)

FontSize(f, string) == <<Len(string) * CharWidth(f), LineHeight(f)>>

RECURSIVE SumHeights(_, _)
SumHeights(strings, f) ==
    IF strings = <<>> THEN 0
    ELSE FontSize(f, Head(strings))[2] + SumHeights(Tail(strings), f)

total_height(strings, f) ==
    SumHeights(strings, f) + (Len(strings) - 1) * LineSpacing

(* max(...) over a non-empty sequence *)
max_width(strings, f) ==
    LET widths == {FontSize(f, strings[i])[1] : i \in 1..Len(strings)}
    IN CHOOSE w \in widths : \A v \in widths : v <= w

Overflows(strings, f, available_width10, available_height10) ==
    \/ 10 * total_height(strings, f) > available_height10
    \/ 10 * max_width(strings, f) > available_width10

(* the while True loop: the first size, from f on, at which the block overflows *)
RECURSIVE FirstOverflow(_, _, _, _)
(* the search with the height test only *)
FirstOverflowHeightOnly(strings, f, available_width10, available_height10) ==
    IF 10 * total_height(strings, f) > available_height10 THEN f
    ELSE FirstOverflow(strings, f + 1, available_width10, available_height10)

FirstOverflow(strings, f, available_width10, available_height10) ==
    IF Overflows(strings, f, available_width10, available_height10) THEN f
    ELSE FirstOverflow(strings, f + 1, available_width10, available_height10)

NothingDrawn ==
    [kind |-> "none", max_font_size |-> 0, new_width10 |-> 0, new_height10 |-> 0]

(* draw_centered_text: max() of an empty sequence raises ValueError *)
draw_centered_text(strings, screen_width, screen_height, horizontal_padding, vertical_padding) ==
    IF strings = <<>> THEN [NothingDrawn EXCEPT !.kind = "ValueError"]
    ELSE LET available_width10 == Available10(screen_width, horizontal_padding)
             available_height10 == Available10(screen_height, vertical_padding)
         IN [NothingDrawn EXCEPT
               !.kind = "text",
               !.max_font_size =
                  FirstOverflow(strings, InitialFontSize,
                                available_width10, available_height10) - 1]

(* IEEE-754 double results of the source's expressions that differ from the
   exact ones, for screens up to 18 and images up to 8 units:
   FloatTieGreater: <<sw, sh>> where available_width / available_height >
   aspect_ratio evaluates to True although the two ratios are equal;
   FloatDivLow: <<s, ow, oh>> where int(available / (ow / oh)) is one less
   than the exact quotient, which is an integer.  int(available * (ow / oh))
   is exact on this range. *)
FloatTieGreater ==
    {<<1,3>>, <<1,6>>, <<1,7>>, <<2,3>>, <<2,6>>, <<2,7>>, <<2,12>>, <<2,14>>,
     <<3,7>>, <<4,3>>, <<4,6>>, <<4,7>>, <<4,12>>, <<4,14>>, <<6,7>>, <<6,14>>,
     <<8,3>>, <<8,6>>, <<8,7>>, <<8,12>>, <<8,14>>, <<12,14>>, <<16,6>>,
     <<16,12>>, <<16,14>>}

FloatDivLow ==
    {<<3,1,5>>, <<3,2,5>>, <<3,4,5>>, <<6,1,5>>, <<6,2,5>>, <<6,4,5>>, <<6,8,5>>,
     <<7,1,5>>, <<7,2,5>>, <<7,4,5>>, <<12,1,5>>, <<12,2,5>>, <<12,4,5>>,
     <<12,8,5>>, <<14,1,5>>, <<14,2,5>>, <<14,4,5>>, <<14,8,5>>}

(* available_width / available_height > aspect_ratio *)
(* a comparison that always fits to the height *)
ViewportWiderAlways(screen_width, screen_height, original_width, original_height) ==
    TRUE

ViewportWider(screen_width, screen_height, original_width, original_height) ==
    \/ screen_width * original_height > screen_height * original_width
    \/ /\ screen_width * original_height = screen_height * original_width
       /\ <<screen_width, screen_height>> \in FloatTieGreater

(* int(new_height * aspect_ratio), new_height the available height *)
IntTimesRatio(screen_dim, padding_tenths, original_width, original_height) ==
    (Available10(screen_dim, padding_tenths) * original_width)
        \div (10 * original_height)

(* int(new_width / aspect_ratio), new_width the available width *)
IntOverRatio(screen_dim, padding_tenths, original_width, original_height) ==
    LET exact == (Available10(screen_dim, padding_tenths) * original_height)
                     \div (10 * original_width)
    IN IF <<screen_dim, original_width, original_height>> \in FloatDivLow
       THEN exact - 1 ELSE exact

draw_centered_image_with_padding(image, screen_width, screen_height, horizontal_padding, vertical_padding) ==
    LET available_width10 == Available10(screen_width, horizontal_padding)
        available_height10 == Available10(screen_height, vertical_padding)
        original_width == image.size[1]
        original_height == image.size[2]
    IN IF ViewportWider(screen_width, screen_height, original_width, original_height)
       THEN [NothingDrawn EXCEPT
               !.kind = "image",
               !.new_height10 = available_height10,
               !.new_width10 = 10 * IntTimesRatio(screen_height, vertical_padding,
                                                  original_width, original_height)]
       ELSE [NothingDrawn EXCEPT
               !.kind = "image",
               !.new_width10 = available_width10,
               !.new_height10 = 10 * IntOverRatio(screen_width, horizontal_padding,
                                                  original_width, original_height)]

-----------------------------------------------------------------------------
(* The program: main(presentation_path) *)

NLNL == <<NL, NL>>

(* what pygame.image.load can do with a path: raise, or decode a surface *)
LoadDims == (MaxImage - 1)..MaxImage
Loads == {LoadFails} \cup (LoadDims \X LoadDims)

(* the sizes the window is created with and resized to *)
DisplayDims == (MaxScreen - 1)..MaxScreen

NoEvent == [type |-> "none", key |-> "none"]

Events ==
    {[type |-> "QUIT", key |-> "none"],
     [type |-> "VIDEORESIZE", key |-> "none"],
     [type |-> "MOUSEMOTION", key |-> "none"]}
    \cup {[type |-> "KEYDOWN", key |-> k] : k \in {"K_RIGHT", "K_LEFT", "K_q", "K_SPACE"}}

Init ==
    /\ text \in Strings(MaxLen)
    /\ paragraphs = <<>>
    /\ idx = 0
    /\ pres = Presentation
    /\ pc = "open"
    /\ exc = "none"
    /\ screen = <<0, 0>>
    /\ running = FALSE
    /\ event = NoEvent
    /\ drawn = NothingDrawn

(* parse: read the file, split it into paragraphs, create the Presentation *)
ReadFile ==
    /\ pc = "open"
    /\ paragraphs' = SplitOn(text, NLNL)
    /\ pres' = Presentation
    /\ idx' = 0
    /\ pc' = "parse"
    /\ UNCHANGED <<text, exc, screen, running, event, drawn>>

(* parse: one iteration of the loop over the paragraphs *)
ParseStep ==
    /\ pc = "parse"
    /\ idx < Len(paragraphs)
    /\ \E load \in Loads :
         LET r == ParseParagraph(paragraphs[idx + 1], load)
         IN IF r.exc # "none"
            THEN /\ pc' = "raised"
                 /\ exc' = r.exc
                 /\ UNCHANGED <<pres, idx>>
            ELSE /\ pres' = add_slide(pres, r.slide)
                 /\ idx' = idx + 1
                 /\ UNCHANGED <<pc, exc>>
    /\ UNCHANGED <<text, paragraphs, screen, running, event, drawn>>

(* parse returns; main creates the window and sets running *)
Start ==
    /\ pc = "parse"
    /\ idx = Len(paragraphs)
    /\ screen' \in DisplayDims \X DisplayDims
    /\ running' = TRUE
    /\ pc' = "loop"
    /\ UNCHANGED <<text, paragraphs, idx, pres, exc, event, drawn>>

(* while running: ; after the loop, pygame.quit() *)
LoopTest ==
    /\ pc = "loop"
    /\ pc' = IF running THEN "events" ELSE "quit"
    /\ drawn' = NothingDrawn
    /\ UNCHANGED <<text, paragraphs, idx, pres, exc, screen, running, event>>

(* the body of for event in pygame.event.get(), for the event e *)
(* the dispatch with the two arrow keys exchanged *)
DispatchSwapped(e) ==
    /\ running' = IF e.type = "QUIT" \/ (e.type = "KEYDOWN" /\ e.key = "K_q")
                  THEN FALSE ELSE running
    /\ IF e.type = "VIDEORESIZE"
       THEN screen' \in DisplayDims \X DisplayDims
       ELSE screen' = screen
    /\ pres' = IF e.type = "KEYDOWN" /\ e.key = "K_RIGHT" THEN prev(pres)
               ELSE IF e.type = "KEYDOWN" /\ e.key = "K_LEFT" THEN next(pres)
               ELSE pres

Dispatch(e) ==
    /\ running' = IF e.type = "QUIT" \/ (e.type = "KEYDOWN" /\ e.key = "K_q")
                  THEN FALSE ELSE running
    /\ IF e.type = "VIDEORESIZE"
       THEN screen' \in DisplayDims \X DisplayDims
       ELSE screen' = screen
    /\ pres' = IF e.type = "KEYDOWN" /\ e.key = "K_RIGHT" THEN next(pres)
               ELSE IF e.type = "KEYDOWN" /\ e.key = "K_LEFT" THEN prev(pres)
               ELSE pres

HandleEvent ==
    /\ pc = "events"
    /\ \E e \in Events :
         /\ event' = e
         /\ Dispatch(e)
    /\ UNCHANGED <<text, paragraphs, idx, pc, exc, drawn>>

(* the events of this iteration are used up *)
EndEvents ==
    /\ pc = "events"
    /\ pc' = "draw"
    /\ event' = NoEvent
    /\ UNCHANGED <<text, paragraphs, idx, pres, exc, screen, running, drawn>>

(* the draw call that ends an iteration of the loop *)
Layout(p, scr) ==
    LET content == get_content(get_current_slide(p))
    IN IF content.kind = "list"
       THEN draw_centered_text(content.lines, scr[1], scr[2],
                               PaddingTenths, PaddingTenths)
       ELSE draw_centered_image_with_padding(content.image, scr[1], scr[2],
                                             PaddingTenths, PaddingTenths)

Draw ==
    /\ pc = "draw"
    /\ LET d == Layout(pres, screen)
       IN IF d.kind = "ValueError"
          THEN /\ pc' = "raised"
               /\ exc' = "ValueError"
               /\ UNCHANGED drawn
          ELSE /\ drawn' = d
               /\ pc' = "loop"
               /\ UNCHANGED exc
    /\ UNCHANGED <<text, paragraphs, idx, pres, screen, running, event>>

Next == ReadFile \/ ParseStep \/ Start \/ LoopTest \/ HandleEvent \/ EndEvents \/ Draw

Spec == Init /\ [][Next]_vars

-----------------------------------------------------------------------------
(* The two layout routines on their own: a one-paragraph deck is on screen,
   in a window of any size up to MaxScreen, and one frame is drawn. *)

RECURSIVE JoinLines(_)
JoinLines(lines) ==
    IF Len(lines) = 1 THEN lines[1]
    ELSE lines[1] \o <<NL>> \o JoinLines(Tail(lines))

Letters(n) == [i \in 1..n |-> LETTER]

LineLists ==
    UNION {[1..k -> {Letters(n) : n \in 0..MaxLineLen}] : k \in 1..MaxLines}

LayoutTexts == {JoinLines(ls) : ls \in LineLists} \cup {<<AT, LETTER>>}

ImageDims == 1..MaxImage
ScreenDims == 1..MaxScreen

InitLayout ==
    /\ text \in LayoutTexts
    /\ paragraphs = SplitOn(text, NLNL)
    /\ idx = Len(paragraphs)
    /\ \E load \in ImageDims \X ImageDims :
         pres = ParseFrom(paragraphs, Presentation, load)
    /\ pc = "draw"
    /\ exc = "none"
    /\ screen \in ScreenDims \X ScreenDims
    /\ running = TRUE
    /\ event = NoEvent
    /\ drawn = NothingDrawn

SpecLayout == InitLayout /\ [][Draw]_vars

-----------------------------------------------------------------------------
(* Properties *)

(* parse has returned its Presentation *)
Parsed ==
    \/ pc \in {"loop", "events", "draw", "quit"}
    \/ pc = "raised" /\ exc = "ValueError"

(* parse has ended, by returning or by raising *)
ParseEnded == Parsed \/ (pc = "raised" /\ exc \in {"IndexError", "pygame.error"})

N == Len(pres.slides)

IsKey(e, k) == e.type = "KEYDOWN" /\ e.key = k

(* C1: with N >= 1 slides, after any sequence of next and prev calls from
   cursor 0 the cursor is an index in 0..N-1, so get_current_slide returns a
   slide of the sequence. *)
C1_CursorIsValidIndex ==
    (Parsed /\ N >= 1) =>
        /\ pres.current_slide \in 0..(N - 1)
        /\ pres.current_slide + 1 \in DOMAIN pres.slides
        /\ \E k \in 1..N : get_current_slide(pres) = pres.slides[k]

C1_Witness ==
    /\ pc = "events"
    /\ IsKey(event, "K_RIGHT")
    /\ N >= 2
    /\ pres.current_slide = N - 1

RECURSIVE NextTimes(_, _)
NextTimes(p, k) == IF k = 0 THEN p ELSE NextTimes(next(p), k - 1)

AtIndex(p, i) == [p EXCEPT !.current_slide = i]

(* C2: next moves the cursor i to min(i+1, N-1) and prev to max(i-1, 0),
   without wraparound: prev at 0 stays at 0, next at N-1 stays at N-1, and
   k calls of next from 0 end at min(k, N-1). *)
C2_NavigationClamps ==
    (Parsed /\ N >= 1) =>
        LET i == pres.current_slide
        IN /\ next(pres).current_slide = (IF i + 1 < N THEN i + 1 ELSE N - 1)
           /\ prev(pres).current_slide = (IF i > 0 THEN i - 1 ELSE 0)
           /\ prev(AtIndex(pres, 0)).current_slide = 0
           /\ next(AtIndex(pres, N - 1)).current_slide = N - 1
           /\ \A k \in 0..MaxCalls :
                NextTimes(AtIndex(pres, 0), k).current_slide
                    = (IF k < N THEN k ELSE N - 1)

C2_Witness ==
    /\ pc = "events"
    /\ IsKey(event, "K_LEFT")
    /\ N = 3
    /\ pres.current_slide = 1

(* the first whitespace-delimited token of s, <<>> when there is none *)
FirstToken(s) ==
    LET starts == {i \in 1..Len(s) : s[i] \notin Whitespace}
    IN IF starts = {} THEN <<>>
       ELSE LET a == CHOOSE i \in starts : \A j \in starts : i <= j
                ends == {i \in a..Len(s) : s[i] \in Whitespace}
                b == IF ends = {} THEN Len(s) + 1
                     ELSE CHOOSE i \in ends : \A j \in ends : i <= j
            IN SubSeq(s, a, b - 1)

(* ps are the pieces of s between its blank-line delimiters, taken left to
   right: joined by the delimiter they give s back, and no delimiter starts
   inside a piece or at its last character *)
RECURSIVE JoinWith(_, _)
JoinWith(ps, sep) ==
    IF Len(ps) = 1 THEN ps[1] ELSE ps[1] \o sep \o JoinWith(Tail(ps), sep)

IsParagraphsOf(ps, s) ==
    /\ Len(ps) >= 1
    /\ JoinWith(ps, NLNL) = s
    /\ \A k \in 1..Len(ps) :
         /\ Find(ps[k], NLNL, 1) = 0
         /\ k < Len(ps) => (ps[k] = <<>> \/ ps[k][Len(ps[k])] # NL)

(* C3: parse produces exactly one slide per paragraph, in file order; the
   k-th slide is an image slide referencing the first whitespace-delimited
   token after the sigil if the k-th paragraph begins with '@', and a text
   slide otherwise. *)
C3_OneSlidePerParagraph ==
    ParseEnded =>
        /\ Parsed
        /\ IsParagraphsOf(paragraphs, text)
        /\ N = Len(paragraphs)
        /\ \A k \in 1..N :
             IF paragraphs[k] # <<>> /\ paragraphs[k][1] = AT
             THEN /\ pres.slides[k].image # None
                  /\ pres.slides[k].image.path = FirstToken(Tail(paragraphs[k]))
             ELSE pres.slides[k].image = None

(* what C3 says of the runs in which parse returns; not the claim *)
C3_WhenParseReturns ==
    Parsed =>
        /\ IsParagraphsOf(paragraphs, text)
        /\ N = Len(paragraphs)
        /\ \A k \in 1..N :
             IF paragraphs[k] # <<>> /\ paragraphs[k][1] = AT
             THEN /\ pres.slides[k].image # None
                  /\ pres.slides[k].image.path = FirstToken(Tail(paragraphs[k]))
             ELSE pres.slides[k].image = None

(* the k-th of the elements of the set of numbers S, counted from 1 *)
Nth(S, k) == CHOOSE x \in S : Cardinality({y \in S : y < x}) = k - 1

(* the lines of a paragraph, by the positions of its line breaks *)
LineCount(par) == Cardinality({i \in 1..Len(par) : par[i] = NL}) + 1

LineAt(par, k) ==
    LET breaks == {i \in 1..Len(par) : par[i] = NL}
        first == IF k = 1 THEN 1 ELSE Nth(breaks, k - 1) + 1
        last == IF k = LineCount(par) THEN Len(par) ELSE Nth(breaks, k) - 1
    IN SubSeq(par, first, last)

Unescaped(line) ==
    IF line # <<>> /\ line[1] = BACKSLASH THEN Tail(line) ELSE line

ExpectedLines(par) ==
    LET kept == {k \in 1..LineCount(par) :
                    LineAt(par, k) = <<>> \/ LineAt(par, k)[1] # HASH}
    IN [j \in 1..Cardinality(kept) |-> Unescaped(LineAt(par, Nth(kept, j)))]

(* C4: for every paragraph that does not begin with '@', the lines of its
   text slide are the paragraph's lines, in order, without the lines that
   begin with '#', and with one leading backslash removed from each line
   that is left. *)
C4_TextSlideLines ==
    \A k \in 1..N :
        ~StartsWith(paragraphs[k], <<AT>>) =>
            /\ pres.slides[k].image = None
            /\ pres.slides[k].lines = ExpectedLines(paragraphs[k])

C4_Witness ==
    /\ Parsed
    /\ \E k \in 1..N :
         /\ paragraphs[k] = <<HASH, NL, BACKSLASH, HASH>>
         /\ pres.slides[k].lines = <<(<<HASH>>)>>

(* C5 as stated: parsing an empty file gives exactly one slide, a text slide
   with zero lines. *)
C5_EmptyFileZeroLines ==
    (Parsed /\ text = <<>>) =>
        /\ N = 1
        /\ pres.slides[1].image = None
        /\ Len(pres.slides[1].lines) = 0

(* C5 amended: parsing an empty file gives exactly one slide, a text slide
   with exactly one line, the empty string. *)
C5_EmptyFileOneEmptyLine ==
    (Parsed /\ text = <<>>) =>
        /\ N = 1
        /\ pres.slides[1].image = None
        /\ pres.slides[1].lines = <<(<<>>)>>

C5_Witness == Parsed /\ text = <<>> /\ pc = "loop" /\ drawn.kind = "text"

(* the lines of the text slide on screen, and the padded viewport *)
Shown == get_current_slide(pres)

AvailableWidth10 == Available10(screen[1], PaddingTenths)
AvailableHeight10 == Available10(screen[2], PaddingTenths)

RECURSIVE BlockHeight(_, _, _)
BlockHeight(strings, f, n) ==
    IF n = 0 THEN 0
    ELSE FontSize(f, strings[n])[2] + (IF n > 1 THEN 10 ELSE 0)
         + BlockHeight(strings, f, n - 1)

(* the block of the lines at font size f fits the padded viewport *)
Fits(strings, f) ==
    /\ 10 * BlockHeight(strings, f, Len(strings)) <= AvailableHeight10
    /\ \A i \in 1..Len(strings) : 10 * FontSize(f, strings[i])[1] <= AvailableWidth10

(* C6 as stated: for every non-empty line set and viewport the selected size
   s is such that the block fits at s and overflows, in height or in width,
   at s + 1. *)
C6_SelectedSizeFits ==
    drawn.kind = "text" =>
        /\ Fits(Shown.lines, drawn.max_font_size)
        /\ ~Fits(Shown.lines, drawn.max_font_size + 1)

(* C6 amended: if the block fits at size 1, the selected size s is at least
   1, the block fits at s and overflows at s + 1; if the block overflows
   already at size 1, the selected size is 0 and no size fits. *)
C6_LargestFittingSizeOrZero ==
    drawn.kind = "text" =>
        IF Fits(Shown.lines, 1)
        THEN /\ drawn.max_font_size >= 1
             /\ Fits(Shown.lines, drawn.max_font_size)
             /\ ~Fits(Shown.lines, drawn.max_font_size + 1)
        ELSE /\ drawn.max_font_size = 0
             /\ \A f \in 0..(MaxScreen + 1) : ~Fits(Shown.lines, f)

C6_Witness ==
    /\ drawn.kind = "text"
    /\ drawn.max_font_size >= 2
    /\ Len(Shown.lines[1]) >= 2
    /\ 10 * FontSize(drawn.max_font_size + 1, Shown.lines[1])[1] > AvailableWidth10
    /\ 10 * FontSize(drawn.max_font_size + 1, Shown.lines[1])[2] <= AvailableHeight10

(* new_width / new_height is original_width / original_height with one
   dimension truncated: that dimension is a whole number, not above its exact
   value and less than one unit below it *)
RatioUpToTruncation ==
    LET ow == Shown.image.size[1]
        oh == Shown.image.size[2]
        nw == drawn.new_width10
        nh == drawn.new_height10
    IN \/ /\ nh = AvailableHeight10
          /\ nw % 10 = 0
          /\ nw * oh <= nh * ow
          /\ nh * ow < (nw + 10) * oh
       \/ /\ nw = AvailableWidth10
          /\ nh % 10 = 0
          /\ nh * ow <= nw * oh
          /\ nw * oh < (nh + 10) * ow

(* the same, the truncated dimension at most one unit below its exact value *)
RatioWithinOneUnit ==
    LET ow == Shown.image.size[1]
        oh == Shown.image.size[2]
        nw == drawn.new_width10
        nh == drawn.new_height10
    IN \/ /\ nh = AvailableHeight10
          /\ nw % 10 = 0
          /\ nw * oh <= nh * ow
          /\ nh * ow <= (nw + 10) * oh
       \/ /\ nw = AvailableWidth10
          /\ nh % 10 = 0
          /\ nh * ow <= nw * oh
          /\ nw * oh <= (nh + 10) * ow

InsidePaddedArea ==
    /\ drawn.new_width10 <= AvailableWidth10
    /\ drawn.new_height10 <= AvailableHeight10
    /\ drawn.new_width10 = AvailableWidth10 \/ drawn.new_height10 = AvailableHeight10

(* C7 as stated: the scaled size stays inside the padded area, one of its
   dimensions equals the available one, and its ratio is the natural one up
   to the truncation of one dimension to an integer (an error below 1). *)
C7_AspectUpToTruncation ==
    drawn.kind = "image" => (InsidePaddedArea /\ RatioUpToTruncation)

(* C7 amended: the same, the truncated dimension being at most one whole
   unit below its exact value (floating-point rounding can take the whole
   unit when the exact value is an integer). *)
C7_AspectWithinOneUnit ==
    drawn.kind = "image" => (InsidePaddedArea /\ RatioWithinOneUnit)

C7_Witness ==
    /\ drawn.kind = "image"
    /\ drawn.new_height10 = AvailableHeight10
    /\ drawn.new_width10 >= 10
    /\ drawn.new_width10 < AvailableWidth10
    /\ Shown.image.size[1] # Shown.image.size[2]

Quits(e) == e.type = "QUIT" \/ IsKey(e, "K_q")

(* C8: in the display loop a right-arrow press applies next once, a
   left-arrow press applies prev once, a q press or a window-close event
   ends the loop (no iteration starts after the one that handled it), and
   every other event leaves the cursor unchanged and the loop running. *)
C8_KeysDriveTheLoop ==
    [][ /\ (pc = "events" /\ pc' = "events") =>
             /\ IsKey(event', "K_RIGHT") => (pres' = next(pres) /\ running' = running)
             /\ IsKey(event', "K_LEFT") => (pres' = prev(pres) /\ running' = running)
             /\ Quits(event') => (~running' /\ pres' = pres)
             /\ (~Quits(event') /\ ~IsKey(event', "K_RIGHT") /\ ~IsKey(event', "K_LEFT"))
                    => (pres' = pres /\ running' = running)
        /\ (pc \in {"loop", "events", "draw"} /\ ~running) =>
             /\ ~running'
             /\ ~(pc = "loop" /\ pc' = "events")
        /\ (pc = "loop" /\ running) => pc' = "events"
        /\ pc = "quit" => pc' = "quit"
      ]_vars

C8_Witness == pc = "quit" /\ ~running /\ pres.current_slide = 2

(* C10: after parse returns, next, prev and get_current_slide change nothing
   but the cursor: the slide sequence stays as parse returned it, and
   get_current_slide leaves the cursor unchanged too. *)
C10_OnlyTheCursorMoves ==
    [][ /\ Parsed => pres'.slides = pres.slides
        /\ pc = "draw" => pres' = pres
      ]_vars

C10_Witness ==
    /\ pc = "loop"
    /\ drawn.kind # "none"
    /\ N = 3
    /\ pres.current_slide = 1

(* C9: rendering a text slide that parse produced never fails: the maximum
   line width is never computed over an empty line sequence. *)
C9_RenderingNeverFails == ~(pc = "raised" /\ exc = "ValueError")

====
